---- MODULE Spec2Model ----
(***************************************************************************)
(* Recipe summarisation: cheapest supplier offer per line item and the     *)
(* merged nutrient profile (findLowestCostProduct, calculateRealCost,      *)
(* aggregateNutrients, sortKeys, summarizeRecipe).                         *)
(*                                                                         *)
(* JavaScript values are modelled as follows.                              *)
(*  - number: a finite non-negative IEEE-754 double with an integer value, *)
(*    written [hi, lo] for hi * 2^53 + lo (|lo| far below 2^52).  Sums and *)
(*    products are rounded to the nearest double, ties to even, exactly as *)
(*    the hardware does; below 2^53 every integer is exact.                *)
(*  - string: the sequence of its UTF-16 code units.                       *)
(*  - object used as a map: the sequence of its own entries in insertion   *)
(*    order; enumeration lists array-index keys first, ascending; a read   *)
(*    of a name the object does not own goes on to Object.prototype.       *)
(*  - object reference: a NutrientFact is either an input object, named by *)
(*    its place in the catalog, or an object allocated during the call.    *)
(*    A quantityAmount is an object too: an allocated fact holds one of    *)
(*    its own or refers to the one another fact keeps, and a write through *)
(*    either fact is seen through both.                                    *)
(***************************************************************************)
EXTENDS Integers, Sequences, FiniteSets

VARIABLES
    products,     \* the catalog behind GetProductsForIngredient (input objects)
    recipeData,   \* the recipes GetRecipes returned, in order
    calls,        \* how many times summarizeRecipe has been called
    result,       \* outcome of the latest summarizeRecipe call
    prev,         \* outcome of the call before it
    before,       \* the catalog as it was when the latest call began
    lineItem,     \* the RecipeLineItem handed to findLowestCostProduct
    found,        \* outcome of the latest findLowestCostProduct call
    totals,       \* the running-totals object aggregateNutrients works on
    allocated,    \* NutrientFact objects allocated while merging
    queue,        \* the facts to hand to aggregateNutrients, by place in the product
    merged,       \* how many of them aggregateNutrients has been handed
    batches,      \* how many aggregateNutrients calls have been made
    mergeStatus   \* "ok", or the error the latest aggregateNutrients call threw

vars == <<products, recipeData, calls, result, prev, before, lineItem, found,
          totals, allocated, queue, merged, batches, mergeStatus>>

-----------------------------------------------------------------------------
(* Bounds of the model *)

\* most products in a catalog
MaxProducts == 2
\* most supplier offers in a catalog (findLowestCostProduct runs)
MaxOffers == 2
\* most line items in a recipe (and, when the recipes of GetRecipes differ,
\* in all of them together)
MaxLineItems == 2
\* most recipes GetRecipes returns, hence most calls of summarizeRecipe
MaxCalls == 2
\* most facts handed to aggregateNutrients (merge runs)
MaxMergeFacts == 3

-----------------------------------------------------------------------------
(* JavaScript numbers *)

Num(h, l) == [hi |-> h, lo |-> l]

Small(n) == Num(0, n)

\* The initial value of lowestCost; every finite number is below it.
Infinity == Num(-1, 0)

RECURSIVE Pow2(_)
Pow2(k) == IF k = 0 THEN 1 ELSE 2 * Pow2(k - 1)

RECURSIVE Log2Floor(_)
Log2Floor(n) == IF n <= 1 THEN 0 ELSE 1 + Log2Floor(n \div 2)

\* x rounded to the nearest multiple of sp, a tie going to the even multiple.
RoundTiesEven(x, sp) ==
    LET q == x \div sp
        r == x % sp
    IN  IF 2 * r < sp THEN q * sp
        ELSE IF 2 * r > sp THEN (q + 1) * sp
        ELSE IF q % 2 = 0 THEN q * sp ELSE (q + 1) * sp

\* The double nearest to h * 2^53 + l.  A value in [2^(52+j), 2^(53+j)) has
\* doubles spaced 2^j apart.
Round(h, l) ==
    IF h = 0 THEN Num(0, l)
    ELSE LET k  == Log2Floor(h)
             sp == IF l < 0 /\ h = Pow2(k) THEN Pow2(k) ELSE Pow2(k + 1)
         IN  Num(h, RoundTiesEven(l, sp))

\* a + b
FAdd(a, b) == Round(a.hi + b.hi, a.lo + b.lo)

\* a * b, one factor at least below 2^53
FMul(a, b) ==
    IF b.hi = 0 THEN Round(a.hi * b.lo, a.lo * b.lo)
    ELSE Round(b.hi * a.lo, b.lo * a.lo)

\* a < b
NumLess(a, b) ==
    IF a = Infinity THEN FALSE
    ELSE IF b = Infinity THEN TRUE
    ELSE a.hi < b.hi \/ (a.hi = b.hi /\ a.lo < b.lo)

-----------------------------------------------------------------------------
(* JavaScript strings and objects *)

Str9 == <<57>>
Str10 == <<49, 48>>
StrFat == <<70, 97, 116>>
StrProtein == <<80, 114, 111, 116, 101, 105, 110>>
StrConstructor == <<99, 111, 110, 115, 116, 114, 117, 99, 116, 111, 114>>
\* "__proto__"
StrProto == <<95, 95, 112, 114, 111, 116, 111, 95, 95>>

\* The property names every object inherits from Object.prototype: constructor,
\* __defineGetter__, __defineSetter__, hasOwnProperty, __lookupGetter__,
\* __lookupSetter__, isPrototypeOf, propertyIsEnumerable, toString, valueOf,
\* __proto__, toLocaleString.  Each reads as a function or, for __proto__, as
\* Object.prototype itself: a truthy value.
ObjectPrototypeNames ==
    {<<99, 111, 110, 115, 116, 114, 117, 99, 116, 111, 114>>,
     <<95, 95, 100, 101, 102, 105, 110, 101, 71, 101, 116, 116, 101, 114, 95, 95>>,
     <<95, 95, 100, 101, 102, 105, 110, 101, 83, 101, 116, 116, 101, 114, 95, 95>>,
     <<104, 97, 115, 79, 119, 110, 80, 114, 111, 112, 101, 114, 116, 121>>,
     <<95, 95, 108, 111, 111, 107, 117, 112, 71, 101, 116, 116, 101, 114, 95, 95>>,
     <<95, 95, 108, 111, 111, 107, 117, 112, 83, 101, 116, 116, 101, 114, 95, 95>>,
     <<105, 115, 80, 114, 111, 116, 111, 116, 121, 112, 101, 79, 102>>,
     <<112, 114, 111, 112, 101, 114, 116, 121, 73, 115, 69, 110, 117, 109, 101, 114, 97, 98, 108, 101>>,
     <<116, 111, 83, 116, 114, 105, 110, 103>>,
     <<118, 97, 108, 117, 101, 79, 102>>,
     <<95, 95, 112, 114, 111, 116, 111, 95, 95>>,
     <<116, 111, 76, 111, 99, 97, 108, 101, 83, 116, 114, 105, 110, 103>>}

\* "4294967295", the first numeric string that is no array index
StrMaxIndex == <<52, 50, 57, 52, 57, 54, 55, 50, 57, 53>>

Min(a, b) == IF a < b THEN a ELSE b

\* s < t as Array.prototype.sort compares strings: by UTF-16 code units
LexLess(s, t) ==
    \/ \E i \in 1..Min(Len(s), Len(t)) :
          /\ s[i] < t[i]
          /\ \A j \in 1..(i - 1) : s[j] = t[j]
    \/ /\ Len(s) < Len(t)
       /\ \A j \in 1..Len(s) : s[j] = t[j]

\* A canonical numeric string below 2^32 - 1: such keys are enumerated first,
\* in ascending numeric order, whatever their insertion order.
IsArrayIndex(s) ==
    /\ Len(s) >= 1
    /\ \A i \in 1..Len(s) : s[i] \in 48..57
    /\ (s[1] = 48 => Len(s) = 1)
    /\ \/ Len(s) < Len(StrMaxIndex)
       \/ Len(s) = Len(StrMaxIndex) /\ LexLess(s, StrMaxIndex)

\* numeric order of two array-index keys
IndexLess(s, t) == Len(s) < Len(t) \/ (Len(s) = Len(t) /\ LexLess(s, t))

\* keys.sort(): distinct strings in ascending code-unit order; each key goes
\* to the place after those that precede it
sort(keys) ==
    [i \in 1..Len(keys) |->
        keys[CHOOSE j \in 1..Len(keys) :
                Cardinality({k \in 1..Len(keys) : LexLess(keys[k], keys[j])})
                    = i - 1]]

\* distinct array-index keys in ascending numeric order
SortIndices(keys) ==
    [i \in 1..Len(keys) |->
        keys[CHOOSE j \in 1..Len(keys) :
                Cardinality({k \in 1..Len(keys) : IndexLess(keys[k], keys[j])})
                    = i - 1]]

\* strictly ascending in the order sort() uses
IsSorted(keys) ==
    \A i \in 1..(Len(keys) - 1) : LexLess(keys[i], keys[i + 1])

\* An object is the sequence of its own entries [key, ref] in insertion
\* order; it was created by {} and its prototype is Object.prototype.
HasOwn(object, key) == \E i \in 1..Len(object) : object[i].key = key

\* What a read finds when the name is inherited: a member of Object.prototype
PrototypeRef == [kind |-> "prototype", product |-> 0, fact |-> 0]

\* if (object[key]): an own entry holds an object, an inherited name reads as
\* a truthy member of Object.prototype, any other name reads as undefined
HasKey(object, key) == HasOwn(object, key) \/ key \in ObjectPrototypeNames

\* object[key], for a name that reads as an object
Get(object, key) ==
    IF HasOwn(object, key)
    THEN object[CHOOSE i \in 1..Len(object) : object[i].key = key].ref
    ELSE PrototypeRef

\* object[key] = ref.  Assigning to __proto__, when it is no own entry, runs
\* the setter inherited from Object.prototype: it replaces the prototype and
\* adds no own entry.
Put(object, key, ref) ==
    IF HasOwn(object, key)
    THEN [i \in 1..Len(object) |->
            IF object[i].key = key THEN [key |-> key, ref |-> ref] ELSE object[i]]
    ELSE IF key = StrProto THEN object
    ELSE Append(object, [key |-> key, ref |-> ref])

InsertionKeys(object) == [i \in 1..Len(object) |-> object[i].key]

\* Object.keys(object): array-index keys ascending, then the rest as inserted
IsNoArrayIndex(s) == ~IsArrayIndex(s)

ObjectKeys(object) ==
    SortIndices(SelectSeq(InsertionKeys(object), IsArrayIndex))
      \o SelectSeq(InsertionKeys(object), IsNoArrayIndex)

-----------------------------------------------------------------------------
(* Data model: UnitOfMeasure, SupplierProduct, NutrientFact, Product,      *)
(* RecipeLineItem                                                          *)

UoM(name, type, amount) ==
    [uomName |-> name, uomType |-> type, uomAmount |-> amount]

SupplierProduct(price, uom) ==
    [supplierPrice |-> price, supplierProductUoM |-> uom]

NutrientFact(name, uom) == [nutrientName |-> name, quantityAmount |-> uom]

Product(ingredient, offers, facts) ==
    [ingredient |-> ingredient, supplierProducts |-> offers, nutrientFacts |-> facts]

LineItem(ingredient, uom) == [ingredient |-> ingredient, unitOfMeasure |-> uom]

-----------------------------------------------------------------------------
(* External collaborators (data access and unit conversion)                *)

\* GetProductsForIngredient: the matching products, in catalog order.  A
\* product object is named by its index in the catalog.
GetProductsForIngredient(prods, ingredient) ==
    SelectSeq([i \in 1..Len(prods) |-> i], LAMBDA i : prods[i].ingredient = ingredient)

\* The dimensions that have a registered base unit
HasBaseUoM(uomType) == uomType \in {"mass", "volume"}

\* GetBaseUoM: the canonical base unit of a dimension
GetBaseUoM(uomType) ==
    IF uomType = "mass" THEN UoM("grams", "mass", Small(1))
    ELSE UoM("millilitres", "volume", Small(1))

\* The registered conversion paths, each with its factor
HasConversion(fromName, toName) == fromName = "kilograms" /\ toName = "grams"

ConversionFactor(fromName, toName) == Small(1000)

\* Whether ConvertUnits(fromUoM, toName, toType) returns rather than throws
CanConvert(fromUoM, toName, toType) ==
    \/ fromUoM.uomName = toName /\ fromUoM.uomType = toType
    \/ fromUoM.uomType = toType /\ HasConversion(fromUoM.uomName, toName)

\* ConvertUnits: the same quantity expressed in the target unit
ConvertUnits(fromUoM, toName, toType) ==
    IF fromUoM.uomName = toName /\ fromUoM.uomType = toType
    THEN fromUoM
    ELSE UoM(toName, toType,
             FMul(fromUoM.uomAmount, ConversionFactor(fromUoM.uomName, toName)))

\* Whether a unit of measure can be brought to the base unit of its dimension
Convertible(uom) ==
    /\ HasBaseUoM(uom.uomType)
    /\ CanConvert(uom, GetBaseUoM(uom.uomType).uomName, uom.uomType)

ToBaseUnits(uom) ==
    ConvertUnits(uom, GetBaseUoM(uom.uomType).uomName, uom.uomType)

\* GetNutrientFactInBaseUnits(fact): produces a NutrientFact of the same
\* name whose quantityAmount is that of fact in the base unit of its
\* dimension; fact itself is only read
GetNutrientFactInBaseUnits(fact) ==
    NutrientFact(fact.nutrientName, ToBaseUnits(fact.quantityAmount))

\* a / b for a quotient that is an integer (the catalogs below hold only
\* prices that are whole multiples of the quantity they buy)
FDiv(a, b) == Round(a.hi \div b.lo, a.lo \div b.lo)

\* GetCostPerBaseUnit: the offer's price divided by the quantity it buys,
\* that quantity in base units
GetCostPerBaseUnit(supplierProduct) ==
    FDiv(supplierProduct.supplierPrice,
         ToBaseUnits(supplierProduct.supplierProductUoM).uomAmount)

-----------------------------------------------------------------------------
(* calculateRealCost and findLowestCostProduct *)

\* Faulty variant of calculateRealCost: the price times the line item's amount as
\* written, not converted to the base unit
calculateRealCostUnconverted(realUoM, basePrice) ==
    IF ~Convertible(realUoM)
    THEN [ok |-> FALSE, value |-> Infinity]
    ELSE [ok |-> TRUE, value |-> FMul(basePrice, realUoM.uomAmount)]

\* calculateRealCost(realUoM, basePrice); GetBaseUoM or ConvertUnits may throw
calculateRealCost(realUoM, basePrice) ==
    IF ~Convertible(realUoM)
    THEN [ok |-> FALSE, value |-> Infinity]
    ELSE LET baseUnitOfMeasure == GetBaseUoM(realUoM.uomType)
             convertedUoM == ConvertUnits(realUoM, baseUnitOfMeasure.uomName,
                                          baseUnitOfMeasure.uomType)
         IN  [ok |-> TRUE, value |-> FMul(basePrice, convertedUoM.uomAmount)]

\* lowestCost and lowestCostProduct before the loops; product 0 is null
NoLowest == [status |-> "ok", product |-> 0, cost |-> Infinity]

\* Faulty variant of KeepLowest: no comparison, the offer scanned last is kept
KeepLatest(best, p, realCost) ==
    IF ~realCost.ok
    THEN [status |-> "ConversionError", product |-> 0, cost |-> Infinity]
    ELSE [status |-> "ok", product |-> p, cost |-> realCost.value]

\* Faulty variant of KeepLowest: realCost <= lowestCost, a later offer wins a tie
KeepLowestOrEqual(best, p, realCost) ==
    IF ~realCost.ok
    THEN [status |-> "ConversionError", product |-> 0, cost |-> Infinity]
    ELSE IF ~NumLess(best.cost, realCost.value)
    THEN [status |-> "ok", product |-> p, cost |-> realCost.value]
    ELSE best

\* if (realCost < lowestCost) {lowestCost = realCost; lowestCostProduct = p}
KeepLowest(best, p, realCost) ==
    IF ~realCost.ok
    THEN [status |-> "ConversionError", product |-> 0, cost |-> Infinity]
    ELSE IF NumLess(realCost.value, best.cost)
    THEN [status |-> "ok", product |-> p, cost |-> realCost.value]
    ELSE best

\* The body of the inner loop for one supplier offer of product p
ScanOffer(best, p, supplierProduct, lineItem_) ==
    IF best.status # "ok" THEN best
    ELSE KeepLowest(best, p,
            calculateRealCost(lineItem_.unitOfMeasure,
                              GetCostPerBaseUnit(supplierProduct)))

\* The inner loop over the supplier offers of product p
RECURSIVE ScanOffers(_, _, _, _)
ScanOffers(best, p, offers, lineItem_) ==
    IF offers = <<>> THEN best
    ELSE ScanOffers(ScanOffer(best, p, Head(offers), lineItem_),
                    p, Tail(offers), lineItem_)

\* The outer loop over the candidate products
RECURSIVE ScanProducts(_, _, _, _)
ScanProducts(best, prods, candidates, lineItem_) ==
    IF candidates = <<>> THEN best
    ELSE ScanProducts(
            ScanOffers(best, Head(candidates),
                       prods[Head(candidates)].supplierProducts, lineItem_),
            prods, Tail(candidates), lineItem_)

\* if (!lowestCostProduct) throw ...; return {product, cost}
ReturnLowest(best) ==
    IF best.status # "ok" THEN best
    ELSE IF best.product = 0
    THEN [status |-> "NoCandidates", product |-> 0, cost |-> Infinity]
    ELSE best

\* findLowestCostProduct(lineItem): {product, cost} or the error thrown
findLowestCostProduct(prods, lineItem_) ==
    ReturnLowest(
        ScanProducts(NoLowest, prods,
                     GetProductsForIngredient(prods, lineItem_.ingredient),
                     lineItem_))

-----------------------------------------------------------------------------
(* Object references and the heap *)

\* A reference to a NutrientFact object: an input fact (fact f of product p)
\* or the f-th object allocated during the call.
InputRef(p, f) == [kind |-> "input", product |-> p, fact |-> f]
AllocatedRef(f) == [kind |-> "allocated", product |-> 0, fact |-> f]

\* The objects a call can reach: the catalog, whose facts are input objects
\* that keep their quantityAmount in place, and the NutrientFact objects
\* allocated so far.  The quantityAmount of an allocated fact is a
\* UnitOfMeasure object of its own or a reference to the fact that keeps the
\* object it refers to.
Heap(prods, objs) == [products |-> prods, allocated |-> objs]

IsShared(quantityAmount) == "kind" \in DOMAIN quantityAmount

\* The fact that keeps the quantityAmount object of ref in place
QuantityOwner(heap, ref) ==
    IF ref.kind = "allocated" /\ IsShared(heap.allocated[ref.fact].quantityAmount)
    THEN heap.allocated[ref.fact].quantityAmount
    ELSE ref

\* The quantityAmount object that owner keeps in place
OwnedQuantity(heap, owner) ==
    IF owner.kind = "input"
    THEN heap.products[owner.product].nutrientFacts[owner.fact].quantityAmount
    ELSE heap.allocated[owner.fact].quantityAmount

\* The object behind a reference, as a reader sees it
Deref(heap, ref) ==
    IF ref.kind = "input"
    THEN heap.products[ref.product].nutrientFacts[ref.fact]
    ELSE NutrientFact(heap.allocated[ref.fact].nutrientName,
                      OwnedQuantity(heap, QuantityOwner(heap, ref)))

\* owner.quantityAmount.uomAmount = amount, owner keeping the object in place
WriteOwned(heap, owner, amount) ==
    IF owner.kind = "input"
    THEN [heap EXCEPT
            !.products[owner.product].nutrientFacts[owner.fact].quantityAmount.uomAmount
                = amount]
    ELSE [heap EXCEPT !.allocated[owner.fact].quantityAmount.uomAmount = amount]

\* ref.quantityAmount.uomAmount = amount: the store goes to the UnitOfMeasure
\* object ref.quantityAmount refers to, whichever facts refer to it
WriteAmount(heap, ref, amount) == WriteOwned(heap, QuantityOwner(heap, ref), amount)

\* The references to the nutrient facts of product p, in order
FactRefs(prods, p) ==
    [f \in 1..Len(prods[p].nutrientFacts) |-> InputRef(p, f)]

-----------------------------------------------------------------------------
(* aggregateNutrients *)

\* The heap with one more object: the NutrientFact the helper produced
Allocate(heap, object) == [heap EXCEPT !.allocated = Append(@, object)]

\* Faulty variant of AddAmount: = in place of +=
AssignAmount(heap, target, source) ==
    WriteAmount(heap, target, Deref(heap, source).quantityAmount.uomAmount)

\* target.quantityAmount.uomAmount += source.quantityAmount.uomAmount
AddAmount(heap, target, source) ==
    WriteAmount(heap, target,
                FAdd(Deref(heap, target).quantityAmount.uomAmount,
                     Deref(heap, source).quantityAmount.uomAmount))

\* Line 56 with existing the value read from existingNutrientFacts: a member
\* of Object.prototype has no quantityAmount, and reading uomAmount of
\* undefined throws a TypeError
AddToExisting(existingNutrientFacts, heap, existing, baseUnitFact) ==
    IF existing.kind = "prototype"
    THEN [status |-> "TypeError", totals |-> existingNutrientFacts, heap |-> heap]
    ELSE [status |-> "ok", totals |-> existingNutrientFacts,
          heap |-> AddAmount(heap, existing, baseUnitFact)]

\* The if/else of the forEach callback: fact is the incoming fact and
\* baseUnitFact the object GetNutrientFactInBaseUnits returned for it
AddOrInsert(existingNutrientFacts, heap, fact, baseUnitFact) ==
    IF HasKey(existingNutrientFacts, Deref(heap, fact).nutrientName)
    THEN AddToExisting(existingNutrientFacts, heap,
                       Get(existingNutrientFacts, Deref(heap, fact).nutrientName),
                       baseUnitFact)
    ELSE [status |-> "ok",
          totals |-> Put(existingNutrientFacts, Deref(heap, fact).nutrientName,
                         baseUnitFact),
          heap |-> heap]

\* Faulty variant of MergeFact: for a fact in base units already, the object
\* merged refers to the quantityAmount object of the incoming fact itself
MergeFactShared(acc, fact) ==
    IF acc.status # "ok" THEN acc
    ELSE IF ~Convertible(Deref(acc.heap, fact).quantityAmount)
    THEN [acc EXCEPT !.status = "ConversionError"]
    ELSE AddOrInsert(acc.totals,
                     Allocate(acc.heap,
                              NutrientFact(Deref(acc.heap, fact).nutrientName,
                                  IF ToBaseUnits(Deref(acc.heap, fact).quantityAmount)
                                        = Deref(acc.heap, fact).quantityAmount
                                  THEN QuantityOwner(acc.heap, fact)
                                  ELSE ToBaseUnits(Deref(acc.heap, fact).quantityAmount))),
                     fact,
                     AllocatedRef(Len(acc.heap.allocated) + 1))

\* Faulty variant of MergeFact: the incoming fact is brought to base units in
\* place and merged itself, no new object being made
MergeFactInPlace(acc, fact) ==
    IF acc.status # "ok" THEN acc
    ELSE IF ~Convertible(Deref(acc.heap, fact).quantityAmount)
    THEN [acc EXCEPT !.status = "ConversionError"]
    ELSE AddOrInsert(acc.totals,
                     [acc.heap EXCEPT
                         !.products[fact.product].nutrientFacts[fact.fact]
                             = GetNutrientFactInBaseUnits(@)],
                     fact,
                     fact)

\* The forEach callback for one fact: acc holds the existingNutrientFacts
\* object (totals) and the heap; a throw ends the loop.
\* GetNutrientFactInBaseUnits throws when the fact's unit does not convert.
MergeFact(acc, fact) ==
    IF acc.status # "ok" THEN acc
    ELSE IF ~Convertible(Deref(acc.heap, fact).quantityAmount)
    THEN [acc EXCEPT !.status = "ConversionError"]
    ELSE AddOrInsert(acc.totals,
                     Allocate(acc.heap,
                              GetNutrientFactInBaseUnits(Deref(acc.heap, fact))),
                     fact,
                     AllocatedRef(Len(acc.heap.allocated) + 1))

\* aggregateNutrients(existingNutrientFacts, newNutrientFacts)
RECURSIVE aggregateNutrients(_, _)
aggregateNutrients(acc, newNutrientFacts) ==
    IF newNutrientFacts = <<>> THEN acc
    ELSE aggregateNutrients(MergeFact(acc, Head(newNutrientFacts)),
                            Tail(newNutrientFacts))

-----------------------------------------------------------------------------
(* sortKeys *)

RECURSIVE CopyKeys(_, _, _)
CopyKeys(res, keys, object) ==
    IF keys = <<>> THEN res
    ELSE CopyKeys(Put(res, Head(keys), Get(object, Head(keys))), Tail(keys), object)

\* sortKeys(object): a new object, the keys inserted in sorted order
sortKeys(object) == CopyKeys(<<>>, sort(ObjectKeys(object)), object)

\* What a reader of the object sees: its keys as enumerated, each with the
\* fact it refers to
EntriesOf(heap, object, keys) ==
    [i \in 1..Len(keys) |->
        [key |-> keys[i], fact |-> Deref(heap, Get(object, keys[i]))]]

Enumerate(heap, object) == EntriesOf(heap, object, ObjectKeys(object))

-----------------------------------------------------------------------------
(* summarizeRecipe *)

NoSummary == [cheapestCost |-> Infinity, nutrientsAtCheapestCost |-> <<>>]

\* totalCost and totalNutrients before the loop
StartPass(prods) ==
    [status |-> "ok", totalCost |-> Small(0), totals |-> <<>>,
     heap |-> Heap(prods, <<>>), visited |-> 0]

\* Faulty variant of Accumulate: totalCost = cost
AccumulateAssign(st, cost, acc) ==
    [status |-> acc.status,
     totalCost |-> cost,
     totals |-> acc.totals,
     heap |-> acc.heap,
     visited |-> st.visited + 1]

\* totalCost += cost, and the accumulator as aggregateNutrients left it,
\* having returned or thrown
Accumulate(st, cost, acc) ==
    [status |-> acc.status,
     totalCost |-> FAdd(st.totalCost, cost),
     totals |-> acc.totals,
     heap |-> acc.heap,
     visited |-> st.visited + 1]

\* Faulty variant of UseLowest: the error is caught and the line item skipped
UseLowestOrSkip(st, lowest) ==
    IF lowest.status # "ok"
    THEN [st EXCEPT !.visited = @ + 1]
    ELSE Accumulate(st, lowest.cost,
            aggregateNutrients(
                [status |-> "ok", totals |-> st.totals, heap |-> st.heap],
                FactRefs(st.heap.products, lowest.product)))

\* The callback once findLowestCostProduct has returned or thrown
UseLowest(st, lowest) ==
    IF lowest.status # "ok"
    THEN [st EXCEPT !.status = lowest.status, !.visited = @ + 1]
    ELSE Accumulate(st, lowest.cost,
            aggregateNutrients(
                [status |-> "ok", totals |-> st.totals, heap |-> st.heap],
                FactRefs(st.heap.products, lowest.product)))

\* The forEach callback for one line item; a throw ends the pass
LineItemStep(st, lineItem_) ==
    IF st.status # "ok" THEN st
    ELSE UseLowest(st, findLowestCostProduct(st.heap.products, lineItem_))

RECURSIVE ForEachLineItem(_, _)
ForEachLineItem(st, lineItems) ==
    IF lineItems = <<>> THEN st
    ELSE ForEachLineItem(LineItemStep(st, Head(lineItems)), Tail(lineItems))

\* summarizeRecipe(recipe): the summary returned or the error thrown, the
\* number of line items the loop reached, and the catalog after the call
ReturnSummary(st) ==
    [status |-> st.status,
     summary |-> IF st.status = "ok"
                 THEN [cheapestCost |-> st.totalCost,
                       nutrientsAtCheapestCost |->
                           Enumerate(st.heap, sortKeys(st.totals))]
                 ELSE NoSummary,
     visited |-> st.visited,
     products |-> st.heap.products]

summarizeRecipe(prods, lineItems) ==
    ReturnSummary(ForEachLineItem(StartPass(prods), lineItems))

-----------------------------------------------------------------------------
(* Input domains *)

Ingredients == {1, 2}

Grams(n) == UoM("grams", "mass", Small(n))
Kilograms(n) == UoM("kilograms", "mass", Small(n))
\* a volume unit with no registered path to millilitres
Cups(n) == UoM("cups", "volume", Small(n))

\* 2^54 - 4 and 2^54 - 2: neighbouring doubles
BigA == Num(2, 0 - 4)
BigB == Num(2, 0 - 2)

SeqsUpTo(S, n) == UNION {[1..k -> S] : k \in 0..n}

\* Offers at 3, 2, 2^54 - 4 and 2^54 - 2 per gram
CostOffers ==
    {SupplierProduct(Small(3), Grams(1)),
     SupplierProduct(Small(2000), Kilograms(1)),
     SupplierProduct(BigA, Grams(1)),
     SupplierProduct(BigB, Grams(1))}

\* The catalogs of at most np products that hold at most budget offers
RECURSIVE CatalogsWithin(_, _)
CatalogsWithin(np, budget) ==
    IF np = 0 THEN {<<>>}
    ELSE {<<>>} \cup
         UNION {{<<Product(i, offers, <<>>)>> \o rest :
                    i \in Ingredients,
                    rest \in CatalogsWithin(np - 1, budget - Len(offers))} :
                offers \in SeqsUpTo(CostOffers, budget)}

CostCatalogs == CatalogsWithin(MaxProducts, MaxOffers)

CostLineItems ==
    {LineItem(i, u) : i \in Ingredients,
                      u \in {Grams(0), Grams(1), Grams(5), Kilograms(1), Cups(1)}}

\* The product shapes the recipe catalogs are built from.
\* Offer at 3 per gram; the same name twice, both facts in base units
ProteinTwice ==
    [offers |-> <<SupplierProduct(Small(3), Grams(1))>>,
     facts  |-> <<NutrientFact(StrProtein, Grams(5)),
                  NutrientFact(StrProtein, Grams(10))>>]

\* Offer at 2 per gram, priced by the kilogram; a fact to convert, and names
\* whose insertion order is not their sorted order
ProteinThenFat ==
    [offers |-> <<SupplierProduct(Small(2000), Kilograms(1))>>,
     facts  |-> <<NutrientFact(StrProtein, Grams(10)),
                  NutrientFact(StrFat, Kilograms(1))>>]

\* No offer
NoOffers == [offers |-> <<>>, facts |-> <<>>]

\* Offer at 3 per gram; array-index names
IndexNames ==
    [offers |-> <<SupplierProduct(Small(3), Grams(1))>>,
     facts  |-> <<NutrientFact(Str9, Grams(5)),
                  NutrientFact(Str10, Grams(5))>>]

\* Offer at 2 per gram; a name that Object.prototype defines
InheritedName ==
    [offers |-> <<SupplierProduct(Small(4), Grams(2))>>,
     facts  |-> <<NutrientFact(StrProtein, Grams(5)),
                  NutrientFact(StrConstructor, Grams(5))>>]

\* Offer at 3 per gram; one fact
ProteinOnce ==
    [offers |-> <<SupplierProduct(Small(3), Grams(1))>>,
     facts  |-> <<NutrientFact(StrProtein, Grams(5))>>]

RecipeShapes == {ProteinTwice, ProteinThenFat, NoOffers, IndexNames, InheritedName}

RecipeProducts ==
    {Product(1, sh.offers, sh.facts) : sh \in RecipeShapes}
        \cup {Product(2, ProteinOnce.offers, ProteinOnce.facts)}

RecipeCatalogs == SeqsUpTo(RecipeProducts, MaxProducts)

RecipeLineItems ==
    {LineItem(1, Grams(2)), LineItem(1, Cups(1)), LineItem(2, Grams(2))}

\* The lists of at most n recipes that hold at most budget line items
RECURSIVE RecipeListsWithin(_, _)
RecipeListsWithin(n, budget) ==
    IF n = 0 THEN {<<>>}
    ELSE {<<>>} \cup
         UNION {{<<lineItems>> \o rest :
                    rest \in RecipeListsWithin(n - 1, budget - Len(lineItems))} :
                lineItems \in SeqsUpTo(RecipeLineItems, budget)}

\* The same recipe of at most MaxLineItems line items, up to MaxCalls times
RepeatedRecipes ==
    {[i \in 1..n |-> lineItems] :
        n \in 0..MaxCalls, lineItems \in SeqsUpTo(RecipeLineItems, MaxLineItems)}

\* What GetRecipes returns: recipes that differ, or one recipe repeated
RecipeLists == RecipeListsWithin(MaxCalls, MaxLineItems) \cup RepeatedRecipes

\* The fact objects of the product the merge runs draw from: protein by the
\* gram (1 and 2^53) and by the kilogram, fat, a name that Object.prototype
\* defines, a unit that does not convert
MergePool ==
    <<NutrientFact(StrProtein, Grams(1)),
      NutrientFact(StrProtein, Kilograms(1)),
      NutrientFact(StrProtein, UoM("grams", "mass", Num(1, 0))),
      NutrientFact(StrFat, Grams(5)),
      NutrientFact(StrProto, Grams(5)),
      NutrientFact(StrFat, Cups(1))>>

\* The lists of facts handed over: each names a fact object of the pool, and
\* the same object may be handed over more than once
MergeQueues == SeqsUpTo(1..Len(MergePool), MaxMergeFacts)

-----------------------------------------------------------------------------
(* State machine *)

NoResult == [status |-> "none", summary |-> NoSummary, visited |-> 0]
NoLineItem == LineItem(0, Grams(0))
NoFound == [status |-> "none", product |-> 0, cost |-> Infinity]

Idle ==
    /\ recipeData = <<>>
    /\ calls = 0
    /\ result = NoResult
    /\ prev = NoResult
    /\ before = <<>>
    /\ lineItem = NoLineItem
    /\ found = NoFound
    /\ totals = <<>>
    /\ allocated = <<>>
    /\ queue = <<>>
    /\ merged = 0
    /\ batches = 0
    /\ mergeStatus = "ok"

\* summarizeRecipe runs: a catalog and the recipes of GetRecipes
Init ==
    /\ products \in RecipeCatalogs
    /\ recipeData \in RecipeLists
    /\ calls = 0
    /\ result = NoResult
    /\ prev = NoResult
    /\ before = <<>>
    /\ lineItem = NoLineItem
    /\ found = NoFound
    /\ totals = <<>>
    /\ allocated = <<>>
    /\ queue = <<>>
    /\ merged = 0
    /\ batches = 0
    /\ mergeStatus = "ok"

\* findLowestCostProduct runs: a catalog
InitCost ==
    /\ products \in CostCatalogs
    /\ Idle

\* aggregateNutrients runs: one product holding the pool, the facts to hand
\* over, an empty running-totals object
InitMerge ==
    /\ products = <<Product(1, <<>>, MergePool)>>
    /\ queue \in MergeQueues
    /\ recipeData = <<>>
    /\ calls = 0
    /\ result = NoResult
    /\ prev = NoResult
    /\ before = <<>>
    /\ lineItem = NoLineItem
    /\ found = NoFound
    /\ totals = <<>>
    /\ allocated = <<>>
    /\ merged = 0
    /\ batches = 0
    /\ mergeStatus = "ok"

\* One turn of the loop over recipeData:
\* recipeSummary[recipe.recipeName] = summarizeRecipe(recipe).  An exception
\* is not caught: it ends the loop, and no call follows a failed one.
SummarizeRecipe ==
    /\ calls < Len(recipeData)
    /\ result.status \in {"none", "ok"}
    /\ \E out \in {summarizeRecipe(products, recipeData[calls + 1])} :
           /\ result' = [status |-> out.status, summary |-> out.summary,
                         visited |-> out.visited]
           /\ products' = out.products
    /\ before' = products
    /\ prev' = result
    /\ calls' = calls + 1
    /\ UNCHANGED <<recipeData, lineItem, found, totals, allocated, queue,
                   merged, batches, mergeStatus>>

\* findLowestCostProduct(li)
FindLowestCostProduct(li) ==
    /\ lineItem' = li
    /\ found' = findLowestCostProduct(products, li)
    /\ UNCHANGED <<products, recipeData, calls, result, prev, before, totals,
                   allocated, queue, merged, batches, mergeStatus>>

\* The facts the queue names from place i to place j, as references
QueuedRefs(i, j) == [n \in 1..(j - i + 1) |-> InputRef(1, queue[i + n - 1])]

\* aggregateNutrients(totals, the next k facts); no call follows one that threw
AggregateNutrients(k) ==
    /\ mergeStatus = "ok"
    /\ merged + k <= Len(queue)
    /\ \E acc \in {aggregateNutrients(
                     [status |-> "ok", totals |-> totals,
                      heap |-> Heap(products, allocated)],
                     QueuedRefs(merged + 1, merged + k))} :
           /\ mergeStatus' = acc.status
           /\ totals' = acc.totals
           /\ products' = acc.heap.products
           /\ allocated' = acc.heap.allocated
    /\ merged' = merged + k
    /\ batches' = batches + 1
    /\ UNCHANGED <<recipeData, calls, result, prev, before, lineItem, found, queue>>

Next == SummarizeRecipe

NextCost == \E li \in CostLineItems : FindLowestCostProduct(li)

NextMerge == \E k \in 1..MaxMergeFacts : AggregateNutrients(k)

Spec == Init /\ [][Next]_vars

SpecCost == InitCost /\ [][NextCost]_vars

SpecMerge == InitMerge /\ [][NextMerge]_vars

-----------------------------------------------------------------------------
(* Properties of findLowestCostProduct (SpecCost) *)

\* The offers considered for a line item: <<p, o>> is offer o of candidate p
OffersFor(prods, li) ==
    {<<p, o>> \in (1..Len(prods)) \X (1..MaxOffers + MaxProducts) :
        /\ prods[p].ingredient = li.ingredient
        /\ o <= Len(prods[p].supplierProducts)}

CostPerBaseUnit(prods, po) == GetCostPerBaseUnit(prods[po[1]].supplierProducts[po[2]])

\* The line item's amount in base units
ConvertedAmount(li) == ToBaseUnits(li.unitOfMeasure).uomAmount

\* The normalized cost of an offer: cost-per-base-unit times converted amount
NormalizedCost(prods, po, li) == FMul(CostPerBaseUnit(prods, po), ConvertedAmount(li))

Returned(f) == f.status = "ok"

\* C1: for a line item whose candidates carry at least one offer (and whose
\* unit converts to its base unit, so that normalized costs exist),
\* findLowestCostProduct returns a cost that no offer of any candidate
\* undercuts and that is the normalized cost of an offer of the returned
\* product; the returned product therefore has offers.
C1_LowestCost ==
    (/\ found # NoFound
     /\ OffersFor(products, lineItem) # {}
     /\ Convertible(lineItem.unitOfMeasure))
    => /\ Returned(found)
       /\ \A po \in OffersFor(products, lineItem) :
             ~NumLess(NormalizedCost(products, po, lineItem), found.cost)
       /\ \E po \in OffersFor(products, lineItem) :
             /\ po[1] = found.product
             /\ NormalizedCost(products, po, lineItem) = found.cost
       /\ products[found.product].supplierProducts # <<>>

\* A call returned the cost of one offer while another candidate offer was
\* dearer and it was not the first one scanned.
C1_Witness ==
    /\ Returned(found)
    /\ \E po \in OffersFor(products, lineItem) :
          /\ NumLess(found.cost, NormalizedCost(products, po, lineItem))
          /\ po[1] < found.product

\* C9: among the offers that achieve the minimum normalized cost, the
\* returned product owns the first in iteration order: no earlier candidate
\* has an offer at the returned cost.
C9_FirstWinsTies ==
    Returned(found)
    => \A po \in OffersFor(products, lineItem) :
          NormalizedCost(products, po, lineItem) = found.cost
          => found.product <= po[1]

\* A call returned while a later product held an offer at the same cost.
C9_Witness ==
    /\ Returned(found)
    /\ \E po \in OffersFor(products, lineItem) :
          /\ NormalizedCost(products, po, lineItem) = found.cost
          /\ found.product < po[1]

\* The least cost-per-base-unit among the offers for a line item
IsMinCostPerBaseUnit(prods, li, c) ==
    /\ \E po \in OffersFor(prods, li) : CostPerBaseUnit(prods, po) = c
    /\ \A po \in OffersFor(prods, li) : ~NumLess(CostPerBaseUnit(prods, po), c)

\* The first product in iteration order holding an offer of cost-per-base-unit c
IsFirstHolder(prods, li, c, p) ==
    /\ \E po \in OffersFor(prods, li) : po[1] = p /\ CostPerBaseUnit(prods, po) = c
    /\ \A po \in OffersFor(prods, li) : CostPerBaseUnit(prods, po) = c => p <= po[1]

PositiveAmount(li) ==
    /\ Convertible(li.unitOfMeasure)
    /\ NumLess(Small(0), ConvertedAmount(li))

\* The line items that differ from li in the required quantity only
Rescaled(li) ==
    {li2 \in CostLineItems :
        /\ li2.ingredient = li.ingredient
        /\ li2.unitOfMeasure.uomType = li.unitOfMeasure.uomType
        /\ PositiveAmount(li2)}

\* Multiplying by the line item's amount keeps offers of different
\* cost-per-base-unit at different normalized costs (no two products round
\* to the same double)
KeepsCostsApart(prods, li) ==
    \A po1, po2 \in OffersFor(prods, li) :
        CostPerBaseUnit(prods, po1) # CostPerBaseUnit(prods, po2)
        => NormalizedCost(prods, po1, li) # NormalizedCost(prods, po2, li)

\* C10 as stated: whatever the positive quantities q1 and q2, the same
\* product is returned, the first holding an offer of minimal
\* cost-per-base-unit, at that minimum times the quantity.
C10_QuantityIndependent ==
    (Returned(found) /\ PositiveAmount(lineItem))
    => \A c \in {CostPerBaseUnit(products, po) : po \in OffersFor(products, lineItem)} :
          IsMinCostPerBaseUnit(products, lineItem, c)
          => /\ IsFirstHolder(products, lineItem, c, found.product)
             /\ found.cost = FMul(c, ConvertedAmount(lineItem))
             /\ \A li2 \in Rescaled(lineItem) :
                   /\ findLowestCostProduct(products, li2).product = found.product
                   /\ findLowestCostProduct(products, li2).cost
                          = FMul(c, ConvertedAmount(li2))

\* C10 amended: the returned cost is always the minimal cost-per-base-unit
\* times the quantity; the returned product is the first holder of that
\* minimum, hence the same for q1 and q2, whenever the multiplication keeps
\* offers of different cost-per-base-unit at different normalized costs.
C10_QuantityIndependentUnlessRounded ==
    (Returned(found) /\ PositiveAmount(lineItem))
    => \A c \in {CostPerBaseUnit(products, po) : po \in OffersFor(products, lineItem)} :
          IsMinCostPerBaseUnit(products, lineItem, c)
          => /\ found.cost = FMul(c, ConvertedAmount(lineItem))
             /\ KeepsCostsApart(products, lineItem)
                => IsFirstHolder(products, lineItem, c, found.product)
             /\ \A li2 \in Rescaled(lineItem) :
                   /\ findLowestCostProduct(products, li2).cost
                          = FMul(c, ConvertedAmount(li2))
                   /\ (KeepsCostsApart(products, lineItem)
                         /\ KeepsCostsApart(products, li2))
                      => findLowestCostProduct(products, li2).product = found.product

\* A call for one kilogram returned the second product, which undercuts the
\* first; the same ingredient is also asked for by the gram.
C10_Witness ==
    /\ Returned(found)
    /\ PositiveAmount(lineItem)
    /\ lineItem.unitOfMeasure.uomName = "kilograms"
    /\ found.product = 2
    /\ KeepsCostsApart(products, lineItem)
    /\ \E po \in OffersFor(products, lineItem) :
          po[1] = 1 /\ NumLess(found.cost, NormalizedCost(products, po, lineItem))
    /\ \E li2 \in Rescaled(lineItem) :
          li2 # lineItem /\ KeepsCostsApart(products, li2)

-----------------------------------------------------------------------------
(* Properties of summarizeRecipe (Spec) *)

Called == calls > 0

Succeeded == result.status = "ok"

\* The recipe the latest call was made on
Recipe == recipeData[calls]

\* No candidate product of the line item carries a supplier offer
Starved(prods, li) == OffersFor(prods, li) = {}

\* Whether merging the fact makes aggregateNutrients throw
Unmergeable(fact) ==
    \/ ~Convertible(fact.quantityAmount)
    \/ fact.nutrientName \in ObjectPrototypeNames

\* The error merging the facts throws, that of the first fact that cannot be
\* merged
MergeFailure(facts) ==
    IF \A i \in 1..Len(facts) : ~Unmergeable(facts[i]) THEN "ok"
    ELSE IF ~Convertible(
                facts[CHOOSE i \in 1..Len(facts) :
                         /\ Unmergeable(facts[i])
                         /\ \A j \in 1..(i - 1) : ~Unmergeable(facts[j])].quantityAmount)
    THEN "ConversionError"
    ELSE "TypeError"

\* The error the line item fails with, "ok" if it does not fail: no offer to
\* price, a unit that does not convert, a fact of the cheapest product that
\* cannot be merged
FailureOf(prods, li) ==
    IF Starved(prods, li) THEN "NoCandidates"
    ELSE IF ~Convertible(li.unitOfMeasure) THEN "ConversionError"
    ELSE MergeFailure(prods[findLowestCostProduct(prods, li).product].nutrientFacts)

\* The position of the first line item without offers, 0 if there is none
FirstStarved ==
    IF \E i \in 1..Len(Recipe) : Starved(before, Recipe[i])
    THEN CHOOSE i \in 1..Len(Recipe) :
            /\ Starved(before, Recipe[i])
            /\ \A j \in 1..(i - 1) : ~Starved(before, Recipe[j])
    ELSE 0

\* The position of the first line item that fails, 0 if there is none
FirstFailing ==
    IF \E i \in 1..Len(Recipe) : FailureOf(before, Recipe[i]) # "ok"
    THEN CHOOSE i \in 1..Len(Recipe) :
            /\ FailureOf(before, Recipe[i]) # "ok"
            /\ \A j \in 1..(i - 1) : FailureOf(before, Recipe[j]) = "ok"
    ELSE 0

\* C2 as stated: a line item without offers, at any position, makes the call
\* fail with the no-candidates error at that line item, no summary returned.
C2_NoCandidatesAborts ==
    (Called /\ FirstStarved # 0)
    => /\ result.status = "NoCandidates"
       /\ result.summary = NoSummary
       /\ result.visited = FirstStarved

\* C2 amended: the call returns no summary; it fails at the first line item
\* that fails, with that line item's error, and reaches no later line item:
\* the no-candidates error when the first to fail is the one without offers.
C2_AbortsAtFirstFailure ==
    (Called /\ FirstStarved # 0)
    => /\ result.summary = NoSummary
       /\ FirstFailing # 0
       /\ FirstFailing <= FirstStarved
       /\ result.visited = FirstFailing
       /\ result.status = FailureOf(before, Recipe[FirstFailing])
       /\ FirstFailing = FirstStarved => result.status = "NoCandidates"

\* The call failed at the first of two line items, whose ingredient has
\* products but no offers, while the second line item could have been priced.
C2_Witness ==
    /\ Called
    /\ result.status = "NoCandidates"
    /\ Len(Recipe) = 2
    /\ result.visited = 1
    /\ GetProductsForIngredient(before, Recipe[1].ingredient) # <<>>
    /\ Returned(findLowestCostProduct(before, Recipe[2]))

SummaryKeys ==
    [i \in 1..Len(result.summary.nutrientsAtCheapestCost) |->
        result.summary.nutrientsAtCheapestCost[i].key]

\* C4: the keys of nutrientsAtCheapestCost are enumerated in ascending
\* lexicographic order.
C4_KeysAscending ==
    Succeeded => IsSorted(SummaryKeys)

MinNormalizedCost(prods, li) ==
    CHOOSE c \in {NormalizedCost(prods, po, li) : po \in OffersFor(prods, li)} :
        \A po \in OffersFor(prods, li) : ~NumLess(NormalizedCost(prods, po, li), c)

\* The sum, in order and starting from 0, of the line items' minimum costs
RECURSIVE SumOfMinima(_, _, _)
SumOfMinima(sum, prods, lineItems) ==
    IF lineItems = <<>> THEN sum
    ELSE SumOfMinima(FAdd(sum, MinNormalizedCost(prods, Head(lineItems))),
                     prods, Tail(lineItems))

\* C6: cheapestCost is the sum, over the line items in order and starting
\* from 0, of the minimum normalized offer cost of each line item.
C6_CheapestCost ==
    (Called /\ Succeeded)
    => result.summary.cheapestCost = SumOfMinima(Small(0), before, Recipe)

\* One line item of 2 grams, product A at 3 per gram and product B at 2 per
\* gram: cheapestCost is 4.
C6_Witness ==
    /\ Called
    /\ Succeeded
    /\ Len(Recipe) = 1
    /\ Recipe[1].unitOfMeasure = Grams(2)
    /\ Len(before) = 2
    /\ \A p \in 1..2 : /\ before[p].ingredient = Recipe[1].ingredient
                       /\ Len(before[p].supplierProducts) = 1
    /\ GetCostPerBaseUnit(before[1].supplierProducts[1]) = Small(3)
    /\ GetCostPerBaseUnit(before[2].supplierProducts[1]) = Small(2)
    /\ result.summary.cheapestCost = Small(4)

\* The facts of the winning products, line item after line item
RECURSIVE WinningFacts(_, _)
WinningFacts(prods, lineItems) ==
    IF lineItems = <<>> THEN <<>>
    ELSE prods[findLowestCostProduct(prods, Head(lineItems)).product].nutrientFacts
            \o WinningFacts(prods, Tail(lineItems))

\* The base-unit amounts of the facts named name, added up in order
RECURSIVE SumNamed(_, _, _)
SumNamed(sum, facts, name) ==
    IF facts = <<>> THEN sum
    ELSE SumNamed(IF Head(facts).nutrientName = name
                  THEN FAdd(sum, ToBaseUnits(Head(facts).quantityAmount).uomAmount)
                  ELSE sum,
                  Tail(facts), name)

\* C7: the keys of nutrientsAtCheapestCost are the names in the facts of the
\* winning products, and each amount is the sum of the base-unit amounts of
\* the facts of that name as they were when the call began, a product
\* counting once per line item it wins.
C7_NutrientTotals ==
    (Called /\ Succeeded)
    => /\ {SummaryKeys[i] : i \in 1..Len(SummaryKeys)}
            = {WinningFacts(before, Recipe)[i].nutrientName :
                  i \in 1..Len(WinningFacts(before, Recipe))}
       /\ \A i \in 1..Len(SummaryKeys) :
             /\ result.summary.nutrientsAtCheapestCost[i].fact.nutrientName
                   = SummaryKeys[i]
             /\ result.summary.nutrientsAtCheapestCost[i].fact.quantityAmount.uomAmount
                   = SumNamed(Small(0), WinningFacts(before, Recipe), SummaryKeys[i])

\* Two line items won by different products contributing Protein 10 g and
\* Protein 5 g: the merged amount is 15.
C7_Witness ==
    /\ Called
    /\ Succeeded
    /\ Len(Recipe) = 2
    /\ findLowestCostProduct(before, Recipe[1]).product
          # findLowestCostProduct(before, Recipe[2]).product
    /\ \E i \in 1..Len(SummaryKeys) :
          /\ SummaryKeys[i] = StrProtein
          /\ result.summary.nutrientsAtCheapestCost[i].fact.quantityAmount.uomAmount
                = Small(15)

\* C8: a call, successful or failed, leaves the recipes and the catalog (the
\* products, their offers, their nutrient facts and the amounts of these) as
\* they were.
C8_InputsUnchanged ==
    [][products' = products /\ recipeData' = recipeData]_vars

\* A call succeeded in which a nutrient name already present was added to in
\* place, and the catalog reads as it did when the call began.
C8_Witness ==
    /\ Called
    /\ Succeeded
    /\ products = before
    /\ \E i, j \in 1..Len(WinningFacts(before, Recipe)) :
          /\ i < j
          /\ WinningFacts(before, Recipe)[i].nutrientName
                = WinningFacts(before, Recipe)[j].nutrientName

-----------------------------------------------------------------------------
(* Properties of aggregateNutrients (SpecMerge) *)

\* The facts handed to aggregateNutrients so far, in order
MergedRefs == QueuedRefs(1, merged)

\* The names and total amounts an accumulator holds
TotalsOf(acc) ==
    {<<acc.totals[i].key, Deref(acc.heap, acc.totals[i].ref).quantityAmount.uomAmount>> :
        i \in 1..Len(acc.totals)}

\* The accumulator as the calls made so far have left it
Running ==
    [status |-> mergeStatus, totals |-> totals, heap |-> Heap(products, allocated)]

\* The accumulator after one call that merges the facts into an empty object,
\* the pool being as it was at the start
MergedAtOnce(refs) ==
    aggregateNutrients(
        [status |-> "ok", totals |-> <<>>,
         heap |-> Heap(<<Product(1, <<>>, MergePool)>>, <<>>)],
        refs)

Reorderings(seq) ==
    {[i \in 1..Len(seq) |-> seq[f[i]]] :
        f \in {g \in [1..Len(seq) -> 1..Len(seq)] :
                  \A i, j \in 1..Len(seq) : g[i] = g[j] => i = j}}

\* C3: whatever the split into successive calls, the totals are those of any
\* permutation of the same facts merged in one call: the same names, the same
\* amount for every name.
C3_OrderIndependent ==
    mergeStatus = "ok"
    => \A perm \in Reorderings(MergedRefs) :
          TotalsOf(MergedAtOnce(perm)) = TotalsOf(Running)

====
